---- MODULE Spec2Model ----
(***************************************************************************)
(* Model of the console-session engine of pteroCraft                       *)
(* (src/websocket_manager.py, src/config.py, src/bot.py).                  *)
(*                                                                         *)
(* Strings are sequences of code points, so that the regular expressions   *)
(* of the source are modelled on the characters they inspect.  Times are   *)
(* integers in tenths of a second.                                         *)
(***************************************************************************)
EXTENDS Integers, Sequences, FiniteSets, TLC

(***************************************************************************)
(* Bounds of the model.                                                    *)
(***************************************************************************)
\* capacity of the ring buffer (500 in src/config.py:29, scaled down)
LOG_BUFFER_SIZE == 2
\* number of credential fetches the supervisor task(s) may start
MaxFetches == 2
\* the correlation window, in tenths of a second (5.0 s in
\* src/config.py:32, scaled down to a few poll iterations)
COMMAND_RESPONSE_TIMEOUT == 5
\* longest string given to strip_ansi on its own
MaxTextLen == 4

(***************************************************************************)
(* config.py                                                               *)
(***************************************************************************)
WS_RECONNECT_MIN_DELAY == 10
WS_RECONNECT_MAX_DELAY == 600
WS_RECONNECT_FACTOR == 2

LIST_SUCCESS == "LIST_SUCCESS"
WL_ADD_OK == "WL_ADD_OK"
WL_ALREADY == "WL_ALREADY"
WL_RM_OK == "WL_RM_OK"
WL_NOT_LISTED == "WL_NOT_LISTED"
WL_NOT_EXIST == "WL_NOT_EXIST"

(***************************************************************************)
(* Characters and the str methods the source uses.                         *)
(***************************************************************************)
ESC == 27

\* str.strip() and \s : Unicode whitespace
IsSpace(c) == c \in {9, 10, 11, 12, 13, 28, 29, 30, 31, 32, 133, 160}

\* \d
IsDigit(c) == c \in 48..57

SubStr(s, i, j) == [k \in 1..(j - i + 1) |-> s[i + k - 1]]

\* first index >= i of s holding a non-space character, Len(s)+1 if none
RECURSIVE SkipSpaceFwd(_, _)
SkipSpaceFwd(s, i) ==
    IF i > Len(s) THEN i
    ELSE IF IsSpace(s[i]) THEN SkipSpaceFwd(s, i + 1) ELSE i

\* last index <= j of s holding a non-space character, 0 if none
RECURSIVE SkipSpaceBack(_, _)
SkipSpaceBack(s, j) ==
    IF j < 1 THEN 0
    ELSE IF IsSpace(s[j]) THEN SkipSpaceBack(s, j - 1) ELSE j

\* str.strip()
Strip(s) ==
    LET a == SkipSpaceFwd(s, 1)
        b == SkipSpaceBack(s, Len(s))
    IN  IF a > b THEN << >> ELSE SubStr(s, a, b)

\* str.lower() on the ASCII letters
Lower(s) == [k \in 1..Len(s) |-> IF s[k] \in 65..90 THEN s[k] + 32 ELSE s[k]]

\* str.endswith
EndsWith(s, suf) ==
    /\ Len(suf) <= Len(s)
    /\ \A k \in 1..Len(suf) : s[Len(s) - Len(suf) + k] = suf[k]

\* s has t at position i
HasAt(s, i, t) ==
    /\ i + Len(t) - 1 <= Len(s)
    /\ \A k \in 1..Len(t) : s[i + k - 1] = t[k]

(***************************************************************************)
(* ansi_escape_pattern = \x1B(?:[@-Z\\-_]|\[[0-?]*[ -/]*[@-~])             *)
(***************************************************************************)
IsFe(c)     == c \in (64..90) \cup (92..95)     \* [@-Z\\-_]
IsParam(c)  == c \in 48..63                     \* [0-?]
IsInterm(c) == c \in 32..47                     \* [ -/]
IsFinal(c)  == c \in 64..126                    \* [@-~]

RECURSIVE SkipClassParam(_, _)
SkipClassParam(s, i) ==
    IF i <= Len(s) /\ IsParam(s[i]) THEN SkipClassParam(s, i + 1) ELSE i

RECURSIVE SkipClassInterm(_, _)
SkipClassInterm(s, i) ==
    IF i <= Len(s) /\ IsInterm(s[i]) THEN SkipClassInterm(s, i + 1) ELSE i

\* length of the match of ansi_escape_pattern at position i of s, 0 if none
\* (the three classes of the CSI branch are disjoint, so the greedy match
\* is the only candidate)
AnsiMatchLen(s, i) ==
    IF i > Len(s) \/ s[i] # ESC \/ i + 1 > Len(s) THEN 0
    ELSE IF IsFe(s[i + 1]) THEN 2
    ELSE IF s[i + 1] = 91 THEN
        LET j == SkipClassInterm(s, SkipClassParam(s, i + 2))
        IN  IF j <= Len(s) /\ IsFinal(s[j]) THEN j - i + 1 ELSE 0
    ELSE 0

\* ansi_escape_pattern.sub('', text): one left-to-right pass
RECURSIVE AnsiSub(_, _)
AnsiSub(s, i) ==
    IF i > Len(s) THEN << >>
    ELSE LET n == AnsiMatchLen(s, i)
         IN  IF n > 0 THEN AnsiSub(s, i + n)
             ELSE <<s[i]>> \o AnsiSub(s, i + 1)

strip_ansi(text) == AnsiSub(text, 1)

(***************************************************************************)
(* The regular expressions of COMMAND_RESPONSES.  A pattern is a sequence  *)
(* of elements: a literal, \S+, \d+, or the tail of the list pattern (an   *)
(* optional group of a whitespace run and a run of any characters but      *)
(* newline, then the end of the string).                                   *)
(***************************************************************************)
Lit(t)  == [el |-> "lit", s |-> t]
NonSp   == [el |-> "S+", s |-> << >>]
Digits  == [el |-> "d+", s |-> << >>]
OptRest == [el |-> "rest", s |-> << >>]

\* pattern elements k.. match s from position i on (re match semantics:
\* some choice of repetition counts succeeds)
RECURSIVE MatchAt(_, _, _, _)
MatchAt(p, k, s, i) ==
    IF k > Len(p) THEN TRUE
    ELSE CASE p[k].el = "lit" ->
                HasAt(s, i, p[k].s) /\ MatchAt(p, k + 1, s, i + Len(p[k].s))
           [] p[k].el = "S+" ->
                \E n \in 1..(Len(s) - i + 1) :
                    /\ \A m \in i..(i + n - 1) : ~IsSpace(s[m])
                    /\ MatchAt(p, k + 1, s, i + n)
           [] p[k].el = "d+" ->
                \E n \in 1..(Len(s) - i + 1) :
                    /\ \A m \in i..(i + n - 1) : IsDigit(s[m])
                    /\ MatchAt(p, k + 1, s, i + n)
           [] p[k].el = "rest" ->
                \* spaces, then characters other than newline up to the
                \* end of the string (or to a final newline)
                \E j \in i..(Len(s) + 1) :
                    /\ \A m \in i..(j - 1) : IsSpace(s[m])
                    /\ \A m \in j..Len(s) : s[m] = 10 => m = Len(s)
                    /\ MatchAt(p, k + 1, s, Len(s) + 1)

\* pattern.search(s)
Search(p, s) == \E i \in 1..(Len(s) + 1) : MatchAt(p, 1, s, i)

S_Added       == <<65,100,100,101,100,32>>
S_ToTheWl     == <<32,116,111,32,116,104,101,32,119,104,105,116,101,108,105,115,116>>
S_Already     == <<80,108,97,121,101,114,32,105,115,32,97,108,114,101,97,100,121,32,119,104,105,116,101,108,105,115,116,101,100>>
S_Removed     == <<82,101,109,111,118,101,100,32>>
S_FromTheWl   == <<32,102,114,111,109,32,116,104,101,32,119,104,105,116,101,108,105,115,116>>
S_NotListed   == <<80,108,97,121,101,114,32,105,115,32,110,111,116,32,119,104,105,116,101,108,105,115,116,101,100>>
S_NotExist    == <<84,104,97,116,32,112,108,97,121,101,114,32,100,111,101,115,32,110,111,116,32,101,120,105,115,116>>
S_ThereAre    == <<84,104,101,114,101,32,97,114,101,32>>
S_OfAMaxOf    == <<32,111,102,32,97,32,109,97,120,32,111,102,32>>
S_PlayersOnl  == <<32,112,108,97,121,101,114,115,32,111,110,108,105,110,101,58>>

\* config.COMMAND_RESPONSES: family -> ordered list of (pattern, tag)
COMMAND_RESPONSES ==
    [list |-> <<
        [re |-> <<Lit(S_ThereAre), Digits, Lit(S_OfAMaxOf), Digits,
                  Lit(S_PlayersOnl), OptRest>>, tag |-> LIST_SUCCESS] >>,
     whitelist |-> <<
        [re |-> <<Lit(S_Added), NonSp, Lit(S_ToTheWl)>>,     tag |-> WL_ADD_OK],
        [re |-> <<Lit(S_Already)>>,                          tag |-> WL_ALREADY],
        [re |-> <<Lit(S_Removed), NonSp, Lit(S_FromTheWl)>>, tag |-> WL_RM_OK],
        [re |-> <<Lit(S_NotListed)>>,                        tag |-> WL_NOT_LISTED],
        [re |-> <<Lit(S_NotExist)>>,                         tag |-> WL_NOT_EXIST] >>]

\* the table the manager is constructed with: the patterns of each family,
\* in the order of COMMAND_RESPONSES
COMMAND_REGEX_MATCHERS ==
    [k \in DOMAIN COMMAND_RESPONSES |->
        [i \in 1..Len(COMMAND_RESPONSES[k]) |-> COMMAND_RESPONSES[k][i].re]]

\* dict.get(key) on the pattern table; None is the empty list here, its
\* only use being the truth test of line 267
Get(table, key) == IF key \in DOMAIN table THEN table[key] ELSE << >>

(***************************************************************************)
(* Console lines the remote console may produce.                           *)
(***************************************************************************)
\* ESC[32m Added Steve to the whitelist ESC[0m
L_Added == <<27,91,51,50,109,65,100,100,101,100,32,83,116,101,118,101,32,116,111,32,116,104,101,32,119,104,105,116,101,108,105,115,116,27,91,48,109>>
\* ESC[33m Player is not whitelisted Player is already whitelisted: a line
\* two patterns of the whitelist family match, the second and the fourth
L_Both == <<27,91,51,51,109>> \o S_NotListed \o <<32>> \o S_Already
\* ESC[0m followed by two spaces: empty once cleaned
L_Blank == <<27,91,48,109,32,32>>

ConsoleLines == {L_Added, L_Both, L_Blank}

\* keys the front-end may pass: two families of the table and an unknown one
ResponseKeys == {"whitelist", "list", "seed"}

\* expected_strings lists passed to send_command_and_await_strings:
\* "whitelisted" then " to the whitelist"; a list of one empty string; empty
E_Whitelisted == <<119,104,105,116,101,108,105,115,116,101,100>>
E_ToTheWl == <<27,91,49,109,32,84,111,32,84,104,101,32,87,104,105,116,101,108,105,115,116,32>>
ExpectedLists == { <<E_Whitelisted, E_ToTheWl>>, << << >> >>, << >> }
\* further lists: "LISTED" then "whitelisted", both suffixes of the
\* already-listed line; an empty string then a blank; a blank alone
E_Listed == <<76,73,83,84,69,68>>
E_Blank == <<32>>
MoreExpectedLists ==
    ExpectedLists
        \cup { <<E_Listed, E_Whitelisted>>, << << >>, E_Blank>>, <<E_Blank>> }

(***************************************************************************)
(* State.                                                                  *)
(***************************************************************************)
VARIABLES
    session,            \* _session: "none", "open", "closed"
    sup_pc,             \* position of the _listener_task
    websocket,          \* _websocket: 0 for None, 1 for a connection
    sock,               \* the socket of the latest connection: none/open/closed
    is_connected,       \* _is_connected
    is_authenticated,   \* is_authenticated
    reconnect_delay,    \* _reconnect_delay, tenths of a second
    log_buffer,         \* log_buffer, oldest first
    fetches,            \* credential fetches started
    tok,                \* the listener's local tok while it is live, from line 88
                        \* to the call of line 98: the number of the fetch that
                        \* returned the token; 0 otherwise
    auth_frames,        \* tokens of the auth frames sent on the connection the
                        \* listener holds, empty when it holds none
    call,               \* the correlation call in progress or last finished
    ansi_text           \* a string given to strip_ansi, and what it returns

supVars == <<session, sup_pc, websocket, sock, is_connected, is_authenticated,
             reconnect_delay, fetches, tok, auth_frames>>
vars == <<session, sup_pc, websocket, sock, is_connected, is_authenticated,
          reconnect_delay, log_buffer, fetches, tok, auth_frames, call,
          ansi_text>>

\* what a correlation call returns: None, or a line with, for the regex call,
\* the pattern that matched it, named by its position in its family's list
NoResult == [found |-> FALSE, pattern |-> 0, line |-> << >>]

\* a correlation call: its position, its arguments, the time since its send,
\* the value it returned and the reason (the message it logs), the command
\* frames it transmitted, and the lines buffered since its send
IdleCall == [pc |-> "idle", kind |-> "none", key |-> "none", expected |-> << >>,
             elapsed |-> 0, result |-> NoResult, why |-> "none",
             sent |-> 0, newCount |-> 0]

Init ==
    /\ session = "none"
    /\ sup_pc = "none"
    /\ websocket = 0
    /\ sock = "none"
    /\ is_connected = FALSE
    /\ is_authenticated = FALSE
    /\ reconnect_delay = WS_RECONNECT_MIN_DELAY
    /\ log_buffer = << >>
    /\ fetches = 0
    /\ tok = 0
    /\ auth_frames = << >>
    /\ call = IdleCall
    /\ ansi_text = << >>

(***************************************************************************)
(* JSON values the peers may send.                                         *)
(***************************************************************************)
JNull == [t |-> "null", keys |-> {}]
\* the value of the "data" member of a credential response
DataValues ==
    {JNull, [t |-> "list", keys |-> {}]}
        \cup {[t |-> "obj", keys |-> K] : K \in SUBSET {"socket", "token"}}

\* outcome of the GET of the credential endpoint: an error raised by the
\* request, or a status with a body
FetchResponses ==
    {[err |-> e, status |-> 0, t |-> "invalid", has_data |-> FALSE, data |-> JNull] :
        e \in {"timeout", "client_error", "exception"}}
    \cup {[err |-> "none", status |-> 500, t |-> "invalid", has_data |-> FALSE, data |-> JNull]}
    \cup {[err |-> "none", status |-> 200, t |-> b, has_data |-> FALSE, data |-> JNull] :
        b \in {"invalid", "list", "obj"}}
    \cup {[err |-> "none", status |-> 200, t |-> "obj", has_data |-> TRUE, data |-> d] :
        d \in DataValues}

\* bool(d) of a value returned by _get_websocket_details
Truthy(d) == \/ d.t = "list"
             \/ d.t = "obj" /\ d.keys # {}

\* d[key] does not raise
HasKey(d, key) == d.t = "obj" /\ key \in d.keys

\* _get_websocket_details: the value returned for a response
GetWebsocketDetails(sess, r) ==
    IF sess # "open" THEN JNull
    ELSE IF r.err # "none" THEN JNull
    ELSE IF r.status = 200 THEN
        \* r.json() raises on a body that is not JSON, d.get on a body that
        \* is not an object: both are caught and give None
        IF r.t # "obj" THEN JNull
        ELSE IF r.has_data THEN r.data ELSE JNull
    ELSE JNull

S_Running == <<114,117,110,110,105,110,103>>

\* a frame received on the socket: text that is not JSON, JSON that is not
\* an object, or an object with optional "event" and "args" members
Frame(t, ev, has, a) == [t |-> t, event |-> ev, has_args |-> has, args |-> a]

AuthReplies ==
    { Frame("invalid", "", FALSE, << >>),
      Frame("list", "", FALSE, << >>),
      Frame("obj", "auth success", FALSE, << >>),
      Frame("obj", "jwt error", TRUE, <<S_Running>>),
      Frame("obj", "jwt error", TRUE, << >>),
      Frame("obj", "jwt error", FALSE, << >>) }

LoopFrames ==
    { Frame("invalid", "", FALSE, << >>),
      Frame("list", "", FALSE, << >>),
      Frame("obj", "console output", FALSE, << >>),
      Frame("obj", "console output", TRUE, << >>),
      Frame("obj", "status", FALSE, << >>),
      Frame("obj", "status", TRUE, << >>),
      Frame("obj", "status", TRUE, <<S_Running>>),
      Frame("obj", "token expiring", FALSE, << >>),
      Frame("obj", "token expired", FALSE, << >>),
      Frame("obj", "stats", TRUE, <<S_Running>>),
      Frame("obj", "", FALSE, << >>) }
    \cup {Frame("obj", "console output", TRUE, <<l>>) : l \in ConsoleLines}

(***************************************************************************)
(* _update_reconnect_delay                                                 *)
(***************************************************************************)
Min(a, b) == IF a < b THEN a ELSE b

\* variant of DelayBase: the delay is reset on failures too
DelayBaseAlwaysReset(delay, i) == WS_RECONNECT_MIN_DELAY

\* variant of DelayBase: a success does not reset the delay
DelayBaseNeverReset(delay, i) ==
    Min(delay * WS_RECONNECT_FACTOR, WS_RECONNECT_MAX_DELAY)

\* the delay before the jitter is added
DelayBase(delay, i) ==
    IF ~i THEN WS_RECONNECT_MIN_DELAY
    ELSE Min(delay * WS_RECONNECT_FACTOR, WS_RECONNECT_MAX_DELAY)

\* random.uniform(0.1, base * 0.1 + 0.1): the two ends of the interval
Jitters(base) == {1, base \div 10 + 1}

\* variant of UpdateReconnectDelay: the sum with the jitter is not capped
UpdateReconnectDelayNoCap(delay, i, j) == DelayBase(delay, i) + j

\* random.uniform(0.1, base * 0.1 + 0.1): every tenth of the interval
AllJitters(base) == 1 .. (base \div 10 + 1)

UpdateReconnectDelay(delay, i, j) ==
    Min(DelayBase(delay, i) + j, WS_RECONNECT_MAX_DELAY)

(***************************************************************************)
(* The supervisor task: _websocket_listener                                *)
(***************************************************************************)
TaskDone == sup_pc \in {"none", "cancelled", "failed"}

\* positions inside the try block of the loop
InTry == {"connecting", "auth_recv", "auth_fail_sleep", "listening"}
\* positions inside the "async with" of the connection
InConnection == {"auth_recv", "auth_fail_sleep", "listening"}

\* top of the loop: lines 79-80, up to the await of the fetch
LoopTop ==
    /\ fetches < MaxFetches
    /\ is_authenticated' = FALSE
    /\ fetches' = fetches + 1
    /\ sup_pc' = "fetching"

\* variant of Teardown: the socket handle is not cleared
TeardownKeepsHandle ==
    /\ is_connected' = FALSE
    /\ is_authenticated' = FALSE
    /\ UNCHANGED websocket
    /\ auth_frames' = << >>
    /\ sup_pc' = "backoff"

\* lines 115-119: the state after the try block, up to the backoff sleep
Teardown ==
    /\ is_connected' = FALSE
    /\ is_authenticated' = FALSE
    /\ websocket' = 0
    /\ auth_frames' = << >>
    /\ sup_pc' = "backoff"

\* first run of the task created by start()
TaskRun ==
    /\ sup_pc = "created"
    /\ LoopTop
    /\ UNCHANGED <<tok, auth_frames, session, websocket, sock, is_connected, reconnect_delay,
                   log_buffer, call>>
    /\ UNCHANGED ansi_text

\* the fetch returns: lines 80-89
FetchReturn ==
    /\ sup_pc = "fetching"
    /\ \E r \in FetchResponses :
        LET d == GetWebsocketDetails(session, r) IN
        IF ~Truthy(d) THEN
            /\ sup_pc' = "fetch_backoff"
            /\ UNCHANGED tok
        ELSE IF HasKey(d, "socket") /\ HasKey(d, "token") THEN
            \* line 88: tok is the token of this response
            /\ sup_pc' = "connecting"
            /\ tok' = fetches
        ELSE
            \* d['socket'] or d['token'] raises outside any try block
            /\ sup_pc' = "failed"
            /\ UNCHANGED tok
    /\ UNCHANGED <<auth_frames, session, websocket, sock, is_connected, is_authenticated,
                   reconnect_delay, log_buffer, fetches, call>>
    /\ UNCHANGED ansi_text

\* the sleep after a failed fetch ends: lines 84-86, then the loop top
FetchBackoffWake ==
    /\ sup_pc = "fetch_backoff"
    /\ \E j \in Jitters(DelayBase(reconnect_delay, TRUE)) :
        reconnect_delay' = UpdateReconnectDelay(reconnect_delay, TRUE, j)
    /\ LoopTop
    /\ UNCHANGED <<tok, auth_frames, session, websocket, sock, is_connected, log_buffer, call>>
    /\ UNCHANGED ansi_text

\* variant of AuthFrames: the auth frame is sent twice
AuthFramesTwice(token) == <<token, token>>

\* the auth frames _authenticate sends on a socket (lines 123-126), each
\* named by the token it carries
AuthFrames(token) == <<token>>

\* websockets.connect returns or raises: lines 92-96, then the send of the
\* auth frame in _authenticate (lines 123-128)
ConnectReturn ==
    /\ sup_pc = "connecting"
    /\ \E outcome \in {"ok", "ws_exception", "os_error"} :
        IF outcome = "ok" THEN
            /\ websocket' = 1
            /\ sock' = "open"
            /\ is_connected' = TRUE
            /\ \E j \in Jitters(DelayBase(reconnect_delay, FALSE)) :
                reconnect_delay' = UpdateReconnectDelay(reconnect_delay, FALSE, j)
            /\ auth_frames' = AuthFrames(tok)
            /\ \E sent \in BOOLEAN :
                sup_pc' = IF sent THEN "auth_recv" ELSE "auth_fail_sleep"
            /\ UNCHANGED is_authenticated
        ELSE
            /\ Teardown
            /\ UNCHANGED <<sock, reconnect_delay>>
    /\ tok' = 0
    /\ UNCHANGED <<session, log_buffer, fetches, call>>
    /\ UNCHANGED ansi_text

\* _authenticate, lines 130-148, on the reply r (or a timeout, or a closed
\* connection): "true", "false", or "raise" when the function raises
AuthOutcome(closed, timeout, r) ==
    IF timeout \/ closed THEN "false"
    ELSE IF r.t = "invalid" THEN "false"
    ELSE IF r.t # "obj" THEN "raise"
    ELSE IF r.event = "auth success" THEN "true"
    ELSE IF r.has_args /\ r.args = << >> THEN "raise"
    ELSE "false"

\* lines 98-105 on the reply r to the auth frame (or a timeout of the
\* receive)
AuthRecvOn(r, timeout) ==
    /\ sup_pc = "auth_recv"
    /\ LET o == AuthOutcome(sock # "open", timeout, r) IN
        CASE o = "true" ->
                /\ is_authenticated' = TRUE
                /\ sup_pc' = "listening"
                /\ UNCHANGED <<websocket, sock, is_connected, auth_frames>>
          [] o = "false" ->
                /\ sup_pc' = "auth_fail_sleep"
                /\ UNCHANGED <<websocket, sock, is_connected, is_authenticated,
                               auth_frames>>
          [] o = "raise" ->
                /\ Teardown
                /\ sock' = "closed"
    /\ UNCHANGED <<tok, session, reconnect_delay, log_buffer, fetches, call>>
    /\ UNCHANGED ansi_text

\* the reply to the auth frame arrives
AuthRecv == \E r \in AuthReplies, timeout \in BOOLEAN : AuthRecvOn(r, timeout)

\* the sleep(5) after a failed authentication ends: the "continue" leaves
\* the connection's context and goes to the loop top
AuthFailWake ==
    /\ sup_pc = "auth_fail_sleep"
    /\ sock' = "closed"
    /\ auth_frames' = << >>
    /\ LoopTop
    /\ UNCHANGED <<tok, session, websocket, is_connected, reconnect_delay,
                   log_buffer, call>>
    /\ UNCHANGED ansi_text

\* the peer or the network closes the connection
PeerClose ==
    /\ sup_pc \in InConnection
    /\ sock = "open"
    /\ sock' = "closed"
    /\ UNCHANGED <<tok, auth_frames, session, sup_pc, websocket, is_connected, is_authenticated,
                   reconnect_delay, log_buffer, fetches, call>>
    /\ UNCHANGED ansi_text

\* variant of BackoffWake: the buffer is emptied before the retry
BackoffWakeClearsBuffer ==
    /\ sup_pc = "backoff"
    /\ \E j \in Jitters(DelayBase(reconnect_delay, TRUE)) :
        reconnect_delay' = UpdateReconnectDelay(reconnect_delay, TRUE, j)
    /\ LoopTop
    /\ log_buffer' = << >>
    /\ UNCHANGED <<tok, auth_frames, session, websocket, sock, is_connected,
                   call, ansi_text>>

\* the sleep before a retry ends: lines 119-120, then the loop top
BackoffWake ==
    /\ sup_pc = "backoff"
    /\ \E j \in Jitters(DelayBase(reconnect_delay, TRUE)) :
        reconnect_delay' = UpdateReconnectDelay(reconnect_delay, TRUE, j)
    /\ LoopTop
    /\ UNCHANGED <<tok, auth_frames, session, websocket, sock, is_connected, log_buffer, call>>
    /\ UNCHANGED ansi_text

(***************************************************************************)
(* The ring buffer and the scans of the correlator.                        *)
(***************************************************************************)
\* variant of BufferAppend: a full buffer gives up its newest line
BufferAppendEvictNewest(buf, line) ==
    IF Len(buf) >= LOG_BUFFER_SIZE
    THEN Append(SubSeq(buf, 1, Len(buf) - 1), line)
    ELSE Append(buf, line)

\* deque(maxlen=LOG_BUFFER_SIZE).append
BufferAppend(buf, line) ==
    IF Len(buf) >= LOG_BUFFER_SIZE THEN Append(Tail(buf), line)
    ELSE Append(buf, line)

\* variant of FirstPatternFrom: the last pattern of pats that matches wins
RECURSIVE LastPatternFrom(_, _, _)
LastPatternFrom(pats, k, cleaned) ==
    IF k > Len(pats) THEN 0
    ELSE LET later == LastPatternFrom(pats, k + 1, cleaned) IN
         IF later # 0 THEN later
         ELSE IF Search(pats[k], cleaned) THEN k
         ELSE 0

\* index of the first pattern of pats that matches the cleaned line, 0 if none
RECURSIVE FirstPatternFrom(_, _, _)
FirstPatternFrom(pats, k, cleaned) ==
    IF k > Len(pats) THEN 0
    ELSE IF Search(pats[k], cleaned) THEN k
    ELSE FirstPatternFrom(pats, k + 1, cleaned)

FirstPattern(pats, cleaned) == FirstPatternFrom(pats, 1, cleaned)

\* variant of ScanBackRegex: the scan runs from the oldest line to the newest
RECURSIVE ScanOldestFirst(_, _, _)
ScanOldestFirst(snap, i, pats) ==
    IF i < 1 THEN 0
    ELSE LET older == ScanOldestFirst(snap, i - 1, pats)
             cleaned == Strip(strip_ansi(snap[i]))
         IN  IF older # 0 THEN older
             ELSE IF cleaned # << >> /\ FirstPatternFrom(pats, 1, cleaned) # 0 THEN i
             ELSE 0

\* variant of ScanBackRegex: only the newest line of the snapshot is tried
ScanNewestOnly(snap, i, pats) ==
    IF i < 1 THEN 0
    ELSE LET cleaned == Strip(strip_ansi(snap[i])) IN
         IF cleaned # << >> /\ FirstPatternFrom(pats, 1, cleaned) # 0 THEN i
         ELSE 0

\* variant of ScanBackRegex: the newest line of the snapshot is left out
RECURSIVE ScanSkipNewest(_, _, _)
ScanSkipNewest(snap, i, pats) ==
    IF i < 1 THEN 0
    ELSE LET j == IF i = Len(snap) THEN i - 1 ELSE i
             cleaned == Strip(strip_ansi(snap[j]))
         IN  IF j < 1 THEN 0
             ELSE IF cleaned # << >> /\ FirstPatternFrom(pats, 1, cleaned) # 0 THEN j
             ELSE ScanSkipNewest(snap, j - 1, pats)

\* the inner loops of send_command_and_find_response, lines 296-308: the
\* index of the line returned, scanning from index i down, 0 if none
RECURSIVE ScanBackRegex(_, _, _)
ScanBackRegex(snap, i, pats) ==
    IF i < 1 THEN 0
    ELSE LET cleaned == Strip(strip_ansi(snap[i])) IN
         IF cleaned = << >> THEN ScanBackRegex(snap, i - 1, pats)
         ELSE IF FirstPattern(pats, cleaned) # 0 THEN i
         ELSE ScanBackRegex(snap, i - 1, pats)

\* the value returned for the line at index i: (pattern, raw_line)
RegexResult(snap, i, pats) ==
    [found |-> TRUE,
     pattern |-> FirstPattern(pats, Strip(strip_ansi(snap[i]))),
     line |-> snap[i]]

\* line 339: the cleaned, lower-cased expected strings, empty ones dropped
RECURSIVE CleanedExpectedFrom(_, _)
CleanedExpectedFrom(expected, k) ==
    IF k > Len(expected) THEN << >>
    ELSE IF expected[k] = << >> THEN CleanedExpectedFrom(expected, k + 1)
    ELSE <<Lower(Strip(strip_ansi(expected[k])))>>
            \o CleanedExpectedFrom(expected, k + 1)

CleanedExpected(expected) == CleanedExpectedFrom(expected, 1)

\* index of the first suffix of sufs the cleaned line ends with, 0 if none
RECURSIVE FirstSuffixFrom(_, _, _)
FirstSuffixFrom(sufs, k, cleaned) ==
    IF k > Len(sufs) THEN 0
    ELSE IF EndsWith(cleaned, sufs[k]) THEN k
    ELSE FirstSuffixFrom(sufs, k + 1, cleaned)

FirstSuffix(sufs, cleaned) == FirstSuffixFrom(sufs, 1, cleaned)

\* the inner loops of send_command_and_await_strings, lines 358-373
RECURSIVE ScanBackLiteral(_, _, _)
ScanBackLiteral(snap, i, sufs) ==
    IF i < 1 THEN 0
    ELSE LET cleaned == Lower(Strip(strip_ansi(snap[i]))) IN
         IF cleaned = << >> THEN ScanBackLiteral(snap, i - 1, sufs)
         ELSE IF FirstSuffix(sufs, cleaned) # 0 THEN i
         ELSE ScanBackLiteral(snap, i - 1, sufs)

\* line 370: the first expected string whose cleaned form is the suffix
RECURSIVE OriginalMatchFrom(_, _, _)
OriginalMatchFrom(expected, k, suffix) ==
    IF k > Len(expected) THEN << >>
    ELSE IF Lower(Strip(strip_ansi(expected[k]))) = suffix THEN expected[k]
    ELSE OriginalMatchFrom(expected, k + 1, suffix)

\* lines 366-373: the string returned for the line at index i
LiteralResult(snap, i, expected) ==
    LET sufs == CleanedExpected(expected)
        cleaned == Lower(Strip(strip_ansi(snap[i])))
        original == OriginalMatchFrom(expected, 1, sufs[FirstSuffix(sufs, cleaned)])
    IN  [found |-> TRUE,
         pattern |-> 0,
         line |-> IF original # << >> THEN Strip(strip_ansi(original))
                  ELSE cleaned]

\* the call's bookkeeping of a line appended to the buffer: the number of
\* lines appended since its send (at most the capacity)
Observe(c, line) ==
    IF c.pc \in {"poll_sleep1", "poll_sleep2"}
    THEN [c EXCEPT !.newCount = Min(c.newCount + 1, LOG_BUFFER_SIZE)]
    ELSE c

(***************************************************************************)
(* The listening state: _message_loop                                      *)
(***************************************************************************)
\* variant of LoopOutcome: the token events are ignored like unknown events
LoopOutcomeIgnoreExpiry(closed, f) ==
    IF closed THEN "break"
    ELSE IF f.t = "invalid" THEN "continue"
    ELSE IF f.t # "obj" THEN "break"
    ELSE IF f.event = "console output" THEN
        IF f.has_args /\ f.args # << >> THEN "append" ELSE "continue"
    ELSE IF f.event = "status" THEN
        IF f.has_args /\ f.args = << >> THEN "raise" ELSE "continue"
    ELSE "continue"

\* what one iteration of the loop does with what recv gives: "append",
\* "continue", "break", or "raise" when the exception leaves the function
LoopOutcome(closed, f) ==
    IF closed THEN "break"
    ELSE IF f.t = "invalid" THEN "continue"
    ELSE IF f.t # "obj" THEN "break"
    ELSE IF f.event = "console output" THEN
        IF f.has_args /\ f.args # << >> THEN "append" ELSE "continue"
    ELSE IF f.event = "status" THEN
        IF f.has_args /\ f.args = << >> THEN "raise" ELSE "continue"
    ELSE IF f.event \in {"token expiring", "token expired"} THEN "break"
    ELSE "continue"

\* one iteration of the message loop on the frame f, lines 152-182
RecvFrame(f) ==
    /\ sup_pc = "listening"
    /\ LET o == LoopOutcome(sock # "open", f) IN
        CASE o = "append" ->
                /\ log_buffer' = BufferAppend(log_buffer, f.args[1])
                /\ call' = Observe(call, f.args[1])
                /\ UNCHANGED <<sup_pc, websocket, sock, is_connected,
                               is_authenticated, auth_frames>>
             [] o = "continue" ->
                UNCHANGED <<sup_pc, websocket, sock, is_connected,
                            is_authenticated, auth_frames, log_buffer, call>>
             [] o \in {"break", "raise"} ->
                /\ Teardown
                /\ sock' = "closed"
                /\ UNCHANGED <<log_buffer, call>>
    /\ UNCHANGED <<tok, session, reconnect_delay, fetches>>
    /\ UNCHANGED ansi_text

\* the message loop receives a frame, or finds the connection closed
Recv == \E f \in LoopFrames : RecvFrame(f)

\* variant of start: a task is created whether or not one is alive
StartAlways ==
    /\ session' = "open"
    /\ sup_pc' = "created"
    /\ UNCHANGED <<websocket, sock, is_connected, is_authenticated,
                   reconnect_delay, log_buffer, fetches, tok, auth_frames,
                   call>>
    /\ UNCHANGED ansi_text

(***************************************************************************)
(* start() and stop()                                                      *)
(***************************************************************************)
Start ==
    /\ IF ~TaskDone THEN UNCHANGED <<session, sup_pc>>
       ELSE /\ session' = "open"
            /\ sup_pc' = "created"
    /\ UNCHANGED <<websocket, sock, is_connected, is_authenticated,
                   reconnect_delay, log_buffer, fetches, tok, auth_frames,
                   call>>
    /\ UNCHANGED ansi_text

\* variant of Stop: the socket is neither closed nor its handle cleared
StopLeavesSocket ==
    /\ sup_pc' = IF TaskDone THEN sup_pc ELSE "cancelled"
    /\ is_connected' = IF sup_pc \in InTry THEN FALSE ELSE is_connected
    /\ session' = IF session = "open" THEN "closed" ELSE session
    /\ auth_frames' = << >>
    /\ tok' = 0
    /\ UNCHANGED <<websocket, sock, is_authenticated, reconnect_delay,
                   log_buffer, fetches, call, ansi_text>>

\* stop(): the task is cancelled and handles the cancellation (lines
\* 108-111 when it is inside the try block), then the socket and the
\* session are closed
Stop ==
    /\ sup_pc' = IF TaskDone THEN sup_pc ELSE "cancelled"
    /\ is_connected' = IF sup_pc \in InTry THEN FALSE ELSE is_connected
    /\ sock' = IF sup_pc \in InConnection \/ websocket # 0 THEN "closed" ELSE sock
    /\ websocket' = 0
    /\ session' = IF session = "open" THEN "closed" ELSE session
    /\ auth_frames' = << >>
    /\ tok' = 0
    /\ UNCHANGED <<is_authenticated, reconnect_delay, log_buffer, fetches, call>>
    /\ UNCHANGED ansi_text

(***************************************************************************)
(* send_command and the two correlation calls                              *)
(***************************************************************************)
\* send_command, lines 230-248: "not_ready" (line 232), "ok", "closed"
\* (ConnectionClosed, lines 240-245) or "error" (lines 246-248); out is
\* what the send does on an open socket
SendCommand(auth, ws, sockOpen, out) ==
    IF ~auth \/ ws = 0 THEN "not_ready"
    ELSE IF ~sockOpen THEN "closed"
    ELSE out

\* variant of GateFailure: the authentication check is missing
GateFailureNoAuth(kind, auth, key, expected) ==
    IF kind = "regex" THEN
        IF Get(COMMAND_REGEX_MATCHERS, key) = << >> THEN "no_patterns"
        ELSE "none"
    ELSE IF expected = << >> THEN "empty_expected"
    ELSE IF CleanedExpected(expected) = << >> THEN "all_empty"
    ELSE "none"

\* variant of GateFailure: the checks of the arguments are missing
GateFailureNoArgs(kind, auth, key, expected) ==
    IF ~auth THEN "not_authenticated" ELSE "none"

\* the checks before the send, lines 262-269 and 331-342: the reason of the
\* early return, "none" when the call goes on to the send
GateFailure(kind, auth, key, expected) ==
    IF ~auth THEN "not_authenticated"
    ELSE IF kind = "regex" THEN
        IF Get(COMMAND_REGEX_MATCHERS, key) = << >> THEN "no_patterns"
        ELSE "none"
    ELSE IF expected = << >> THEN "empty_expected"
    ELSE IF CleanedExpected(expected) = << >> THEN "all_empty"
    ELSE "none"

\* variant of LoopCond: the loop gives up one iteration early
LoopCondEarly(elapsed) == elapsed + 4 < COMMAND_RESPONSE_TIMEOUT

\* the condition of the polling loop, lines 281 and 352
LoopCond(elapsed) == elapsed < COMMAND_RESPONSE_TIMEOUT

\* the sleep at the start of an iteration and the one at its end
FirstSleep == 1
SecondSleep(kind) == IF kind = "regex" THEN 3 ELSE 2

\* variant of AfterSend: the result of send_command is ignored
AfterSendIgnored(ret) == "poll"

\* where a call goes after send_command returned
AfterSend(ret) == IF ret = "ok" THEN "poll" ELSE "return"

\* the call returns: its arguments are dropped; of its bookkeeping a match
\* keeps the number of lines appended between the send and the return, any
\* other return the time the call has taken
Finished(c, why, res) ==
    [IdleCall EXCEPT !.pc = "done", !.kind = c.kind, !.why = why,
                     !.result = res, !.sent = c.sent,
                     !.elapsed = IF why = "matched" THEN 0 ELSE c.elapsed,
                     !.newCount = IF why = "matched" THEN c.newCount ELSE 0]

\* a correlation call runs from its first line to its first suspension in
\* the polling loop, or to its return
Begin(kind, key, expected, out) ==
    /\ call.pc \in {"idle", "done"}
    /\ LET c == [IdleCall EXCEPT !.kind = kind, !.key = key, !.expected = expected]
           gate == GateFailure(kind, is_authenticated, key, expected)
           ret == SendCommand(is_authenticated, websocket, sock = "open", out)
       IN
       IF gate # "none" THEN
            /\ call' = Finished(c, gate, NoResult)
            /\ UNCHANGED <<websocket, is_connected, is_authenticated>>
       ELSE
            /\ IF ret = "closed"
               THEN /\ is_connected' = FALSE
                    /\ is_authenticated' = FALSE
                    /\ websocket' = 0
               ELSE UNCHANGED <<websocket, is_connected, is_authenticated>>
            /\ LET c1 == [c EXCEPT !.sent = IF ret = "ok" THEN 1 ELSE 0] IN
               IF AfterSend(ret) = "return"
               THEN call' = Finished(c1, ret, NoResult)
               ELSE IF LoopCond(0)
               THEN call' = [c1 EXCEPT !.pc = "poll_sleep1"]
               ELSE call' = Finished(c1, "timeout", NoResult)
    /\ UNCHANGED <<tok, auth_frames, session, sup_pc, sock, reconnect_delay, log_buffer,
                   fetches>>
    /\ UNCHANGED ansi_text

\* send_command_and_find_response is called
FindResponseStart ==
    \E key \in ResponseKeys, out \in {"ok", "error"} :
        Begin("regex", key, << >>, out)

\* send_command_and_await_strings is called
AwaitStringsStart ==
    \E expected \in ExpectedLists, out \in {"ok", "error"} :
        Begin("literal", "none", expected, out)

\* the sleep(0.1) of an iteration ends: the snapshot and its reverse scan
PollScan ==
    /\ call.pc = "poll_sleep1"
    /\ LET snap == log_buffer
           i == IF call.kind = "regex"
                THEN ScanBackRegex(snap, Len(snap), Get(COMMAND_REGEX_MATCHERS, call.key))
                ELSE ScanBackLiteral(snap, Len(snap), CleanedExpected(call.expected))
           c == [call EXCEPT !.elapsed = call.elapsed + FirstSleep]
       IN
       IF i # 0 THEN
            call' = Finished(c, "matched",
                        IF call.kind = "regex"
                        THEN RegexResult(snap, i, Get(COMMAND_REGEX_MATCHERS, call.key))
                        ELSE LiteralResult(snap, i, call.expected))
       ELSE call' = [c EXCEPT !.pc = "poll_sleep2"]
    /\ UNCHANGED <<tok, auth_frames, session, sup_pc, websocket, sock, is_connected,
                   is_authenticated, reconnect_delay, log_buffer, fetches>>
    /\ UNCHANGED ansi_text

\* the sleep at the end of an iteration ends: the loop condition, then the
\* next iteration or the return of lines 316-317 and 380-381
PollNext ==
    /\ call.pc = "poll_sleep2"
    /\ LET c == [call EXCEPT !.elapsed = call.elapsed + SecondSleep(call.kind)] IN
       IF LoopCond(c.elapsed)
       THEN call' = [c EXCEPT !.pc = "poll_sleep1"]
       ELSE call' = Finished(c, "timeout", NoResult)
    /\ UNCHANGED <<tok, auth_frames, session, sup_pc, websocket, sock, is_connected,
                   is_authenticated, reconnect_delay, log_buffer, fetches>>
    /\ UNCHANGED ansi_text

(***************************************************************************)
(* Specifications                                                          *)
(***************************************************************************)
\* the log accessors get_last_log, get_clean_last_log, get_recent_logs and
\* get_clean_recent_logs: they read the buffer and return a copy
GetLogs == UNCHANGED vars

Next ==
    \/ Start
    \/ Stop
    \/ TaskRun
    \/ FetchReturn
    \/ FetchBackoffWake
    \/ ConnectReturn
    \/ AuthRecv
    \/ AuthFailWake
    \/ BackoffWake
    \/ PeerClose
    \/ Recv
    \/ FindResponseStart
    \/ AwaitStringsStart
    \/ PollScan
    \/ PollNext
    \/ GetLogs

Spec == Init /\ [][Next]_vars

(***************************************************************************)
(* The vocabulary of the properties.                                       *)
(***************************************************************************)
Polling == call.pc \in {"poll_sleep1", "poll_sleep2"}

\* every console line, cleaned as the scans clean it
CleanedLine == [l \in ConsoleLines |-> Strip(strip_ansi(l))]

\* for every family and console line, the matchers of the family, by their
\* position in its list, that match the line once cleaned
LineMatchers ==
    [key \in DOMAIN COMMAND_REGEX_MATCHERS |->
        [l \in ConsoleLines |->
            {k \in 1..Len(COMMAND_REGEX_MATCHERS[key]) :
                Search(COMMAND_REGEX_MATCHERS[key][k], CleanedLine[l])}]]

MatchersOf(key, line) == LineMatchers[key][line]

\* the line is not empty once cleaned and some matcher of the family matches
Matches(key, line) ==
    CleanedLine[line] # << >> /\ MatchersOf(key, line) # {}

Least(S) == CHOOSE k \in S : \A m \in S : k <= m
Greatest(S) == CHOOSE k \in S : \A m \in S : m <= k

\* the outcome tag COMMAND_RESPONSES pairs with a pattern of a family
OutcomeTag(key, pattern) == COMMAND_RESPONSES[key][pattern].tag

\* the outcome tag of a line: that of the first-listed matcher matching it
OutcomeOfLine(key, line) ==
    COMMAND_RESPONSES[key][Least(MatchersOf(key, line))].tag

\* indices of the buffer lines matching the family of the call in progress
MatchingIdx == {i \in 1..Len(log_buffer) : Matches(call.key, log_buffer[i])}

\* indices of the buffer lines appended since the send of the call
NewIdx == (Len(log_buffer) - call.newCount + 1)..Len(log_buffer)

\* a poll tick of a send_command_and_find_response call: the step that takes
\* the call out of the first sleep of an iteration (only PollScan does)
RegexTick ==
    /\ call.pc = "poll_sleep1" /\ call.kind = "regex"
    /\ call'.pc # "poll_sleep1"

\* a correlation call is entered
CallStart == FindResponseStart \/ AwaitStringsStart

\* the step returns the call in progress to its caller
Returns == Polling /\ call'.pc = "done"

\* the buffer lines appended since the send that match the family
NewMatchingIdx == NewIdx \cap MatchingIdx

(***************************************************************************)
(* C1.  As stated: whenever send_command_and_find_response returns a line, *)
(* that line was appended to the buffer after the command was sent; a      *)
(* matching line already buffered before the send is never returned.       *)
(***************************************************************************)
C1_ReturnedLinePostdatesSend ==
    [][RegexTick /\ call'.result.found
        => \E i \in NewIdx : log_buffer[i] = call'.result.line]_vars

(***************************************************************************)
(* C1, amended.  The line send_command_and_find_response returns was       *)
(* appended after the send whenever some line appended since the send and  *)
(* still in the snapshot matches; otherwise the call returns a matching    *)
(* line that was buffered before the send.                                 *)
(***************************************************************************)
C1_ReturnedLineNewUnlessNoNewMatch ==
    [][RegexTick /\ call'.result.found
        => IF NewMatchingIdx # {}
           THEN \E i \in NewMatchingIdx : log_buffer[i] = call'.result.line
           ELSE \E i \in MatchingIdx \ NewIdx : log_buffer[i] = call'.result.line]_vars

\* a call has returned a line although no line had arrived since its send
C1_Witness ==
    /\ call.pc = "done" /\ call.kind = "regex" /\ call.why = "matched"
    /\ call.sent = 1
    /\ call.newCount = 0

(***************************************************************************)
(* C2.  As stated: the result of a sent send_command_and_find_response is  *)
(* decided by the lines received after the send alone, whatever the buffer *)
(* held before it: when the call returns and a matching line has arrived   *)
(* since the send, the call returns the outcome of the newest such line,   *)
(* and it returns no outcome taken from a line older than the send.        *)
(***************************************************************************)
C2_ArrivedLineDecidesResult ==
    [][Returns /\ call.kind = "regex"
        => IF NewMatchingIdx # {}
           THEN /\ call'.result.found
                /\ OutcomeTag(call.key, call'.result.pattern)
                     = OutcomeOfLine(call.key, log_buffer[Greatest(NewMatchingIdx)])
           ELSE ~call'.result.found]_vars

(***************************************************************************)
(* C2, amended.  At a poll tick of send_command_and_find_response whose    *)
(* snapshot holds a matching line appended since the send, the call        *)
(* returns at that tick the newest such line and its outcome.  (A line     *)
(* that arrives after the last tick, or after a tick that found a line     *)
(* older than the send, is not returned.)                                  *)
(***************************************************************************)
C2_NewLineReturnedAtTick ==
    [][RegexTick /\ NewMatchingIdx # {}
        => /\ call'.pc = "done"
           /\ call'.result.found
           /\ call'.result.line = log_buffer[Greatest(NewMatchingIdx)]
           /\ OutcomeTag(call.key, call'.result.pattern)
                = OutcomeOfLine(call.key, log_buffer[Greatest(NewMatchingIdx)])]_vars

\* scenario B: "Added Steve to the whitelist" arrived after the send and the
\* call returned it with the add-success outcome
C2_Witness ==
    /\ call.pc = "done" /\ call.kind = "regex" /\ call.why = "matched"
    /\ call.newCount >= 1
    /\ call.result.line = L_Added
    /\ OutcomeTag("whitelist", call.result.pattern) = WL_ADD_OK
    /\ log_buffer # << >> /\ log_buffer[Len(log_buffer)] = L_Added

(***************************************************************************)
(* C3.  Reverse-scan recency: the line a poll tick of                      *)
(* send_command_and_find_response returns is the newest line of the        *)
(* snapshot that is not empty once cleaned and matches a matcher of the    *)
(* family; with an older and a newer matching line, the newer is returned. *)
(***************************************************************************)
C3_NewestMatchReturned ==
    [][RegexTick /\ call'.result.found
        => /\ MatchingIdx # {}
           /\ call'.result.line = log_buffer[Greatest(MatchingIdx)]]_vars

\* two matching lines of different outcomes are buffered, the older
\* add-success and the newer already-listed, and the call returned the newer
C3_Witness ==
    /\ call.pc = "done" /\ call.kind = "regex" /\ call.why = "matched"
    /\ log_buffer = <<L_Added, L_Both>>
    /\ call.result.line = L_Both
    /\ OutcomeTag("whitelist", call.result.pattern) = WL_ALREADY

C5_TimeoutReturn ==
    [][/\ (Returns /\ call.kind = "regex" /\ ~call'.result.found
            => /\ call'.why = "timeout"
               /\ call.sent = 1
               /\ call'.elapsed >= COMMAND_RESPONSE_TIMEOUT
               /\ call'.elapsed < COMMAND_RESPONSE_TIMEOUT + FirstSleep
                                      + SecondSleep("regex"))
       /\ (Polling /\ call.kind = "regex" /\ call'.pc # call.pc
                /\ call'.pc # "done"
            => call'.elapsed > call.elapsed)
       /\ (call'.pc \in {"poll_sleep1", "poll_sleep2"}
            => call'.elapsed < COMMAND_RESPONSE_TIMEOUT + FirstSleep)
      ]_vars

\* a sent call has returned None by the timeout
C5_Witness ==
    /\ call.pc = "done" /\ call.kind = "regex" /\ call.why = "timeout"
    /\ call.sent = 1 /\ ~call.result.found
    /\ call.elapsed >= COMMAND_RESPONSE_TIMEOUT

(***************************************************************************)
(* C6.  Auth gating: a correlation call of either kind entered while       *)
(* is_authenticated is false returns None at its first check: no frame is  *)
(* sent, no poll tick and no wait take place, nothing else changes.        *)
(***************************************************************************)
C6_AuthGate ==
    [][~is_authenticated /\ CallStart
        => /\ call'.pc = "done"
           /\ call'.why = "not_authenticated"
           /\ ~call'.result.found
           /\ call'.sent = 0
           /\ call'.elapsed = 0
           /\ UNCHANGED <<supVars, log_buffer>>]_vars

\* a call of the literal kind has been refused for want of authentication
\* although the manager holds an open socket
C6_Witness ==
    /\ call.pc = "done" /\ call.kind = "literal"
    /\ call.why = "not_authenticated"
    /\ ~is_authenticated /\ websocket # 0 /\ sock = "open"
    /\ call.sent = 0

(***************************************************************************)
(* C7.  Caller misuse: a send_command_and_find_response call with a key    *)
(* that is not a family of the pattern table, and a                        *)
(* send_command_and_await_strings call with no expected string, return     *)
(* None before any frame is sent and leave the connection state and the    *)
(* buffer as they were.                                                    *)
(***************************************************************************)
C7_MisuseFailsLocally ==
    [][(\/ \E key \in ResponseKeys \ DOMAIN COMMAND_REGEX_MATCHERS,
              out \in {"ok", "error"} : Begin("regex", key, << >>, out)
        \/ \E out \in {"ok", "error"} : Begin("literal", "none", << >>, out))
        => /\ call'.pc = "done"
           /\ ~call'.result.found
           /\ call'.sent = 0
           /\ UNCHANGED <<supVars, log_buffer>>]_vars

\* an authenticated manager has refused a call for its unknown key
C7_Witness ==
    /\ call.pc = "done" /\ call.kind = "regex"
    /\ call.why = "no_patterns"
    /\ is_authenticated /\ websocket # 0 /\ sock = "open"
    /\ call.sent = 0

(***************************************************************************)
(* C8.  A correlation call follows Sent -> Polling -> {Matched, TimedOut}: *)
(* it transmits its frame at most once, exactly once before it polls,      *)
(* never while it polls, and a failed transmission returns None without    *)
(* polling.                                                                *)
(***************************************************************************)
C8_SingleSend ==
    [][/\ call'.sent \in {0, 1}
       /\ (call'.pc \in {"poll_sleep1", "poll_sleep2"} => call'.sent = 1)
       /\ (Polling => call'.sent = call.sent)
       /\ (call' # call /\ call'.pc = "done"
                /\ call'.why \in {"matched", "timeout"}
            => call'.sent = 1 /\ Polling)
       /\ (call' # call /\ call'.pc = "done"
                /\ call'.why \in {"not_ready", "closed", "error"}
            => /\ call'.sent = 0 /\ call'.elapsed = 0
               /\ ~call'.result.found
               /\ ~Polling)
       /\ (call.pc = "poll_sleep1" /\ call'.pc # call.pc
            => \/ call'.pc = "poll_sleep2"
               \/ call'.pc = "done" /\ call'.why = "matched")
       /\ (call.pc = "poll_sleep2" /\ call'.pc # call.pc
            => \/ call'.pc = "poll_sleep1"
               \/ call'.pc = "done" /\ call'.why = "timeout")
      ]_vars

\* the transmission has failed and the call has returned None at once
C8_Witness ==
    /\ call.pc = "done"
    /\ call.why \in {"closed", "error"}
    /\ call.sent = 0 /\ call.elapsed = 0
    /\ ~call.result.found

(***************************************************************************)
(* C9.  As stated: the task of _websocket_listener ends only by            *)
(* cancellation; whatever the credential fetch, the socket open, the       *)
(* authentication and the message loop give, no exception ends the task.   *)
(***************************************************************************)
C9_TaskEndsOnlyByCancellation == sup_pc # "failed"

(***************************************************************************)
(* C10.  As stated: transient failures are never fatal; after a failure    *)
(* of the fetch, of the socket open, an abnormal closure or the end of a   *)
(* session, a supervisor that is not cancelled has its next credential     *)
(* fetch ahead of it: the sleep that leads to it is pending.               *)
(***************************************************************************)
C10_RetryPendingAfterFailure ==
    (sup_pc \in {"fetch_backoff", "backoff", "failed"} /\ fetches < MaxFetches)
        => ENABLED (FetchBackoffWake \/ BackoffWake)

(***************************************************************************)
(* Vocabulary of the properties of the connection and of the buffer.       *)
(***************************************************************************)
\* the reply that makes _authenticate return True
IsAuthSuccess(r) == r.t = "obj" /\ r.event = "auth success"

\* the events on which the message loop returns to reconnect
IsTokenEvent(f) ==
    f.t = "obj" /\ f.event \in {"token expiring", "token expired"}

\* a status event, an event of an unknown name, or a console-output event
\* without a first argument
IsNoOpFrame(f) ==
    /\ f.t = "obj"
    /\ \/ f.event \notin {"console output", "token expiring", "token expired"}
       \/ f.event = "console output" /\ (~f.has_args \/ f.args = << >>)

\* a console-output event with a first argument
IsAppendFrame(f) ==
    f.t = "obj" /\ f.event = "console output" /\ f.has_args /\ f.args # << >>

\* the last n entries of s
LastN(s, n) == SubSeq(s, Len(s) - n + 1, Len(s))

\* a buffer of bounded length after the arrival of one more line
AfterAppend(buf, line) ==
    LastN(buf \o <<line>>, Min(Len(buf) + 1, LOG_BUFFER_SIZE))

(***************************************************************************)
(* C11.  As stated: in every reachable state, also after a cancellation    *)
(* by stop() and after a failed send, is_authenticated implies             *)
(* is_connected.                                                           *)
(***************************************************************************)
C11_AuthenticatedImpliesConnected == is_authenticated => is_connected

(***************************************************************************)
(* C12.  As stated: a cancellation of the supervisor task at any of its    *)
(* suspension points ends the task, leaves is_connected and                *)
(* is_authenticated false, and the cancelled task starts no further fetch  *)
(* or connection.                                                          *)
(***************************************************************************)
C12_CancellationDisconnects ==
    [][/\ (~TaskDone /\ sup_pc # "created" /\ sup_pc' = "cancelled"
            => ~is_connected' /\ ~is_authenticated')
       /\ (sup_pc = "cancelled"
            => /\ sup_pc' \in {"cancelled", "created"}
               /\ fetches' = fetches
               /\ sock' # "open")
      ]_vars

(***************************************************************************)
(* C13.  On every connection the listener holds, exactly one auth frame    *)
(* has been handed to the socket, and it carries the token of the fetch    *)
(* of the same loop iteration.  The message loop is entered, and           *)
(* is_authenticated set, only by the step in which the handshake on that   *)
(* open socket received an auth-success reply.  A line enters the buffer   *)
(* only in the listening state, that is from a socket whose handshake      *)
(* succeeded.                                                              *)
(***************************************************************************)
C13_AuthenticateOnceThenListen ==
    [][/\ (sup_pc = "connecting" /\ sup_pc' \in InConnection) =>
            /\ tok = fetches
            /\ auth_frames' = <<tok>>
       /\ sup_pc' \in InConnection => auth_frames' = <<fetches'>>
       /\ (sup_pc' = "listening" /\ sup_pc # "listening") =>
            /\ sup_pc = "auth_recv"
            /\ sock = "open"
            /\ auth_frames = <<fetches>>
            /\ is_authenticated'
            /\ \E r \in AuthReplies : IsAuthSuccess(r) /\ AuthRecvOn(r, FALSE)
       /\ (is_authenticated' /\ ~is_authenticated) =>
            sup_pc = "auth_recv" /\ sup_pc' = "listening"
       /\ log_buffer' # log_buffer =>
            /\ sup_pc = "listening"
            /\ sock = "open"
            /\ auth_frames = <<fetches>>
      ]_vars

\* a line buffered from the first connection, which sent the auth frame
\* with the token of the first fetch
C13_Witness ==
    /\ sup_pc = "listening"
    /\ is_authenticated
    /\ fetches = 1
    /\ auth_frames = <<1>>
    /\ Len(log_buffer) = 1

(***************************************************************************)
(* C14.  As stated: _authenticate returns true only on an exact            *)
(* auth-success reply and returns false, without raising, on every other   *)
(* reply or I/O outcome; so the step that consumes the reply leads the     *)
(* listener to the message loop exactly on an auth-success reply received  *)
(* in time on an open socket, and to the sleep after a failed              *)
(* authentication otherwise.                                               *)
(***************************************************************************)

C14_AuthenticateNeverRaises ==
    [][\A r \in AuthReplies, timeout \in BOOLEAN :
         AuthRecvOn(r, timeout) =>
            sup_pc' = IF IsAuthSuccess(r) /\ ~timeout /\ sock = "open"
                      THEN "listening" ELSE "auth_fail_sleep"
      ]_vars

(***************************************************************************)
(* C15.  As stated: in the listening state a frame that is not valid JSON, *)
(* or is valid JSON but not an object, is skipped: the listener stays in   *)
(* the message loop and the buffer and the connection state are unchanged. *)
(***************************************************************************)
C15_MalformedFrameSkipped ==
    [][\A f \in LoopFrames :
         (f.t # "obj" /\ sock = "open" /\ RecvFrame(f)) =>
            UNCHANGED <<sup_pc, log_buffer, websocket, sock, is_connected,
                        is_authenticated>>
      ]_vars

(***************************************************************************)
(* C16.  A token-expiring or token-expired event ends the message loop in  *)
(* the step that receives it: the socket is closed, so no later frame of   *)
(* it is processed, the state is Disconnected, the socket handle is        *)
(* cleared and the buffer is unchanged.  The expired token is the token of *)
(* the latest fetch; the listener leaves the backoff only into a new       *)
(* fetch, every connection is opened from a fetch of its own iteration,    *)
(* and its auth frame carries the token of that fetch, which is newer      *)
(* than every token fetched before.                                        *)
(***************************************************************************)
C16_TokenEventReconnectsWithNewToken ==
    [][/\ sup_pc = "listening" /\ sock = "open" =>
            \A f \in LoopFrames :
                IsTokenEvent(f) /\ RecvFrame(f) =>
                    /\ auth_frames = <<fetches>>
                    /\ sup_pc' = "backoff"
                    /\ sock' = "closed"
                    /\ ~is_connected'
                    /\ ~is_authenticated'
                    /\ websocket' = 0
                    /\ auth_frames' = << >>
                    /\ UNCHANGED <<log_buffer, fetches>>
       /\ (sup_pc = "backoff" /\ sup_pc' \notin {"backoff", "cancelled"}) =>
            sup_pc' = "fetching"
       /\ fetches' >= fetches
       /\ (sup_pc' = "fetching" /\ sup_pc # "fetching") => fetches' = fetches + 1
       /\ (sup_pc' = "connecting" /\ sup_pc # "connecting") =>
            sup_pc = "fetching" /\ tok' = fetches
       /\ auth_frames' \notin {<< >>, auth_frames} =>
            /\ sup_pc = "connecting"
            /\ auth_frames' = <<fetches>>
      ]_vars

\* the second connection, authenticated with the token of the second fetch
C16_Witness ==
    /\ sup_pc = "listening"
    /\ is_authenticated
    /\ fetches = 2
    /\ auth_frames = <<2>>
    /\ sock = "open"

(***************************************************************************)
(* C17.  As stated: a status event or an event of an unknown name, with    *)
(* any args, missing or empty ones included, and a console-output event    *)
(* without a first argument change neither the buffer nor the connection   *)
(* state and do not end the listening state.                               *)
(***************************************************************************)
C17_NoOpEventsKeepListening ==
    [][\A f \in LoopFrames :
         (IsNoOpFrame(f) /\ sock = "open" /\ RecvFrame(f)) =>
            UNCHANGED <<sup_pc, log_buffer, websocket, sock, is_connected,
                        is_authenticated>>
      ]_vars

(***************************************************************************)
(* C18.  The ring buffer never holds more lines than its capacity, it      *)
(* changes only by the append of a console line, and after the append of   *)
(* a line it equals the last min(n + 1, capacity) lines of the old buffer  *)
(* of n lines followed by the new line: arrival order is kept and on       *)
(* overflow exactly the oldest line is evicted.  By induction the buffer   *)
(* is the last min(count, capacity) lines appended.                        *)
(***************************************************************************)
C18_RingBuffer ==
    [][/\ Len(log_buffer') <= LOG_BUFFER_SIZE
       /\ log_buffer' # log_buffer =>
            \E l \in ConsoleLines : log_buffer' = AfterAppend(log_buffer, l)
       /\ sup_pc = "listening" /\ sock = "open" =>
            \A f \in LoopFrames :
                IsAppendFrame(f) /\ RecvFrame(f) =>
                    log_buffer' = AfterAppend(log_buffer, f.args[1])
      ]_vars

\* a full buffer whose oldest and newest lines differ
C18_Witness ==
    /\ Len(log_buffer) = LOG_BUFFER_SIZE
    /\ log_buffer[1] # log_buffer[Len(log_buffer)]
    /\ sup_pc = "listening"
    /\ sock = "open"

(***************************************************************************)
(* The reconnect delay on its own: every sequence of calls of              *)
(* _update_reconnect_delay, with True after a failure that was slept out   *)
(* and with False after a successful open, and every jitter.  The          *)
(* supervisor makes such a sequence, so every delay it reaches is reached  *)
(* here.                                                                   *)
(***************************************************************************)
UpdateDelayAfterFailure ==
    /\ \E j \in AllJitters(DelayBase(reconnect_delay, TRUE)) :
        reconnect_delay' = UpdateReconnectDelay(reconnect_delay, TRUE, j)
    /\ UNCHANGED <<tok, auth_frames, session, sup_pc, websocket, sock, is_connected,
                   is_authenticated, log_buffer, fetches, call>>
    /\ UNCHANGED ansi_text

UpdateDelayAfterOpen ==
    /\ \E j \in AllJitters(DelayBase(reconnect_delay, FALSE)) :
        reconnect_delay' = UpdateReconnectDelay(reconnect_delay, FALSE, j)
    /\ UNCHANGED <<tok, auth_frames, session, sup_pc, websocket, sock, is_connected,
                   is_authenticated, log_buffer, fetches, call>>
    /\ UNCHANGED ansi_text

DelayNext == UpdateDelayAfterFailure \/ UpdateDelayAfterOpen

DelaySpec == Init /\ [][DelayNext]_vars

(***************************************************************************)
(* C19.  The reconnect delay is at least WS_RECONNECT_MIN_DELAY and at     *)
(* most WS_RECONNECT_MAX_DELAY in every reachable state, for every         *)
(* sequence of failures and successes and every jitter.                    *)
(***************************************************************************)
C19_DelayWithinBounds ==
    /\ reconnect_delay >= WS_RECONNECT_MIN_DELAY
    /\ reconnect_delay <= WS_RECONNECT_MAX_DELAY

\* the cap has been reached
C19_Witness == reconnect_delay = WS_RECONNECT_MAX_DELAY

(***************************************************************************)
(* C20.  The update after a failure never lowers the delay: the delay      *)
(* slept before a retry, which is the value before the update, is at most  *)
(* the delay slept before the next retry when no successful open resets    *)
(* it in between.                                                          *)
(***************************************************************************)
C20_BackoffMonotone ==
    [][UpdateDelayAfterFailure => reconnect_delay' >= reconnect_delay]_vars

\* three failures in a row, the cap not yet reached
C20_Witness ==
    /\ reconnect_delay > 8 * WS_RECONNECT_MIN_DELAY
    /\ reconnect_delay < WS_RECONNECT_MAX_DELAY

ResetDelays ==
    { WS_RECONNECT_MIN_DELAY + j : j \in AllJitters(WS_RECONNECT_MIN_DELAY) }

ListeningInit ==
    /\ session = "open"
    /\ sup_pc = "listening"
    /\ websocket = 1
    /\ sock = "open"
    /\ is_connected = TRUE
    /\ is_authenticated = TRUE
    /\ reconnect_delay \in ResetDelays
    /\ log_buffer = << >>
    /\ fetches = 1
    /\ tok = 0
    /\ auth_frames = <<1>>
    /\ call = IdleCall
    /\ ansi_text = << >>

AwaitStringsAny ==
    \E expected \in MoreExpectedLists, out \in {"ok", "error"} :
        Begin("literal", "none", expected, out)

LiteralNext == Recv \/ AwaitStringsAny \/ PollScan \/ PollNext

LiteralSpec == ListeningInit /\ [][LiteralNext]_vars

\* a string cleaned and lower-cased, as the literal scan compares it
CleanLower(s) == Lower(Strip(strip_ansi(s)))

\* the positions of the expected strings, not empty once cleaned, that the
\* line ends with, case-insensitively
SuffixIdx(expected, line) ==
    {k \in 1..Len(expected) :
        /\ CleanLower(expected[k]) # << >>
        /\ EndsWith(CleanLower(line), CleanLower(expected[k]))}

\* indices of the buffer lines, not empty once cleaned, that end with an
\* expected string of the call in progress
SuffixMatchingIdx ==
    {i \in 1..Len(log_buffer) :
        /\ CleanLower(log_buffer[i]) # << >>
        /\ SuffixIdx(call.expected, log_buffer[i]) # {}}

\* a poll tick of a send_command_and_await_strings call
LiteralTick ==
    /\ call.pc = "poll_sleep1" /\ call.kind = "literal"
    /\ call'.pc # "poll_sleep1"

(***************************************************************************)
(* C22.  As stated: a poll tick of send_command_and_await_strings returns, *)
(* for the newest buffer line that is not empty once cleaned and ends,     *)
(* case-insensitively, with an expected string, the cleaned form of the    *)
(* first-listed expected string that is a suffix of it; with no such line  *)
(* in the snapshot the tick returns nothing, and a call that returns       *)
(* without a result after polling has reached its deadline.                *)
(***************************************************************************)
C22_LiteralReturnsFirstListedSuffix ==
    [][/\ LiteralTick =>
            IF SuffixMatchingIdx = {} THEN ~call'.result.found
            ELSE /\ call'.result.found
                 /\ call'.result.line =
                        LET line == log_buffer[Greatest(SuffixMatchingIdx)] IN
                        Strip(strip_ansi(
                            call.expected[Least(SuffixIdx(call.expected, line))]))
       /\ (Polling /\ call.kind = "literal" /\ call'.pc = "done"
                /\ ~call'.result.found) =>
            /\ call'.why = "timeout"
            /\ call'.elapsed >= COMMAND_RESPONSE_TIMEOUT
      ]_vars

(***************************************************************************)
(* strip_ansi on its own: every string of at most MaxTextLen characters    *)
(* over ESC, the bracket, a final byte that is also a one-character escape *)
(* (A) and one that is not (m), stripped again and again.                  *)
(***************************************************************************)
AnsiChars == {ESC, 91, 65, 109}

AnsiTexts == UNION {[1..n -> AnsiChars] : n \in 0..MaxTextLen}

StripInit ==
    /\ ansi_text \in AnsiTexts
    /\ session = "none"
    /\ sup_pc = "none"
    /\ websocket = 0
    /\ sock = "none"
    /\ is_connected = FALSE
    /\ is_authenticated = FALSE
    /\ reconnect_delay = WS_RECONNECT_MIN_DELAY
    /\ log_buffer = << >>
    /\ fetches = 0
    /\ tok = 0
    /\ auth_frames = << >>
    /\ call = IdleCall

StripAnsi ==
    /\ ansi_text' = strip_ansi(ansi_text)
    /\ UNCHANGED <<session, sup_pc, websocket, sock, is_connected,
                   is_authenticated, reconnect_delay, log_buffer, fetches,
                   tok, auth_frames, call>>

StripNext == StripAnsi

StripSpec == StripInit /\ [][StripNext]_vars

(***************************************************************************)
(* C23.  As stated: strip_ansi is idempotent; what strip_ansi returns for  *)
(* any string, nested, adjacent or incomplete escape sequences included,   *)
(* is returned unchanged by strip_ansi.                                    *)
(***************************************************************************)
C23_StripAnsiIdempotent ==
    [][StripAnsi => strip_ansi(ansi_text') = ansi_text']_vars

(***************************************************************************)
(* C24.  stop(), called in any state of the supervisor, ends with the task *)
(* done, the socket closed and its handle empty, and the HTTP session      *)
(* closed if there was one; a task that was alive ends as cancelled, and   *)
(* no fetch is started by the call.  A stop() that raised from the wait    *)
(* for the task or from the close of the socket would skip the steps after *)
(* it, so these end states are those of a stop() that returned.            *)
(***************************************************************************)
C24_StopShutsDown ==
    [][Stop =>
        /\ sup_pc' \in {"none", "cancelled", "failed"}
        /\ (sup_pc \notin {"none", "cancelled", "failed"} => sup_pc' = "cancelled")
        /\ websocket' = 0
        /\ sock' # "open"
        /\ session' # "open"
        /\ fetches' = fetches
      ]_vars

\* after a stop() that found the listener connected
C24_Witness ==
    /\ sup_pc = "cancelled"
    /\ session = "closed"
    /\ sock = "closed"
    /\ websocket = 0
    /\ ~is_connected
    /\ fetches = 1

(***************************************************************************)
(* C25.  As stated: whenever the supervisor is fetching credentials or     *)
(* sleeping before a retry, the iteration after a failed authentication    *)
(* included, is_connected and is_authenticated are both false.             *)
(***************************************************************************)
C25_IterationStartsDisconnected ==
    sup_pc \in {"fetching", "fetch_backoff", "backoff"}
        => ~is_connected /\ ~is_authenticated

(***************************************************************************)
(* C26.  The buffer changes only by a step of the message loop, in the     *)
(* listening state, that receives a console-output event with a first     *)
(* argument; every other step (correlation calls, log accessors, failed    *)
(* sends, stop and start, disconnects, backoff sleeps, fetches, opens and  *)
(* handshakes) leaves it as it is, so the lines buffered before a          *)
(* reconnect are in the buffer after it.                                   *)
(***************************************************************************)
C26_OnlyMessageLoopWritesBuffer ==
    [][log_buffer' # log_buffer =>
        /\ sup_pc = "listening"
        /\ sup_pc' = "listening"
        /\ \E f \in LoopFrames : IsAppendFrame(f) /\ RecvFrame(f)
      ]_vars

\* the second connection is in its handshake and has not listened yet: the
\* lines that fill the buffer come from the connection before it
C26_Witness ==
    /\ sup_pc = "auth_recv"
    /\ fetches = 2
    /\ Len(log_buffer) = LOG_BUFFER_SIZE

\* the connection state: is_connected, is_authenticated, the socket handle
ConnState == <<is_connected, is_authenticated, websocket>>

(***************************************************************************)
(* C27.  As stated: no step of send_command_and_find_response or of        *)
(* send_command_and_await_strings, whether its send succeeds or fails,     *)
(* changes is_connected, is_authenticated or the socket handle.            *)
(***************************************************************************)
C27_CallsLeaveConnectionState ==
    [][(call' # call /\ sup_pc' = sup_pc
            /\ (CallStart \/ PollScan \/ PollNext))
        => UNCHANGED ConnState]_vars

====
